---- MODULE Spec2Model ----
(***************************************************************************)
(* Model of the two-stage PDF extraction pipeline.                         *)
(*   stage 1  src/src/1_extract_text.py   per-page text recovery           *)
(*   stage 2  src/src/2_extract_company.py  line scan and record emission   *)
(* Text is a sequence of one-character strings.  Regular expressions are   *)
(* values interpreted by Ends/Search/Sub, which follow the backtracking    *)
(* order of Python's re module.                                            *)
(***************************************************************************)
EXTENDS Integers, Sequences, FiniteSets, TLC

VARIABLES
    \* stage 2, parse_txt_file
    lines,          \* the lines of the text file
    idx,            \* 1-based index of the line the scan is at
    current_page,   \* page ordinal of the last page marker, or NoneInt
    current_lv,     \* the last LV position seen, or NoneText
    rows,           \* the records emitted so far
    scan_pc,        \* "idle", "scan" or "done"
    \* stage 1, module load
    cpu_count,      \* os.cpu_count(): a positive int, or NoneInt
    env_value,      \* os.getenv("OCR_MAX_WORKERS"): a str, or NoneText
    MAX_WORKERS,    \* the module global
    load_pc,        \* "default", "getenv", "override" or "loaded"
    \* stage 1, the file system
    in_dir,         \* names of the PDFs in data/input
    content,        \* what each PDF holds
    pdf_mtime,      \* st_mtime of each PDF
    out_file,       \* the text file of each PDF: exists, text, mtime
    clock,          \* the time stamp a write gets
    runs,           \* how many times main has been started
    \* stage 1, main and process_pdf
    main_pc,        \* "start", "loop", "done" or "aborted"
    pdfs,           \* main's sorted list
    di,             \* position of the for loop of main in pdfs
    pc,             \* position inside process_pdf
    page_idx,       \* idx of the page loop of extract_text_mixed
    pieces,         \* extract_text_mixed's slots
    pages_for_ocr,  \* extract_text_mixed's list of pages sent to OCR
    futs,           \* the futures of the running executor
    results,        \* the slots of the fallback
    text            \* process_pdf's text

scanVars == << lines, idx, current_page, current_lv, rows, scan_pc >>
loadVars == << cpu_count, env_value, MAX_WORKERS, load_pc >>
fileVars == << in_dir, content, pdf_mtime, out_file, clock, runs >>
mainVars == << main_pc, pdfs, di >>
procVars == << pc, page_idx, pieces, pages_for_ocr, futs, results, text >>
vars == << scanVars, loadVars, fileVars, mainVars, procVars >>

\* Python's None: for a family name, where an int is expected, and where a
\* str is expected
None == "None"
NoneInt == -1
NoneText == << "None" >>

\* ------------------------------------------------------------------------
\* Characters
\* ------------------------------------------------------------------------
UPPER == << "A","B","C","D","E","F","G","H","I","J","K","L","M","N","O","P",
            "Q","R","S","T","U","V","W","X","Y","Z","Ö" >>
LOWER == << "a","b","c","d","e","f","g","h","i","j","k","l","m","n","o","p",
            "q","r","s","t","u","v","w","x","y","z","ö" >>
UpperSet == { UPPER[k] : k \in DOMAIN UPPER }
LowerSet == { LOWER[k] : k \in DOMAIN LOWER }
LowerOf == [ c \in UpperSet |-> LOWER[CHOOSE k \in DOMAIN UPPER : UPPER[k] = c] ]

\* str.lower() on one character
Lower(c) == IF c \in UpperSet THEN LowerOf[c] ELSE c

\* str.lower()
LowerStr(s) == [ k \in 1..Len(s) |-> Lower(s[k]) ]

DIGITS == << "0","1","2","3","4","5","6","7","8","9" >>
Digit == { DIGITS[k] : k \in DOMAIN DIGITS }
\* \s
Space == { " ", "\t" }
\* \w (after case folding)
WordCh == LowerSet \cup Digit \cup { "_" }

IsWord(s, i) == i >= 1 /\ i <= Len(s) /\ Lower(s[i]) \in WordCh

\* ------------------------------------------------------------------------
\* Regular expressions.  A position i in 1..Len(s)+1 is the index of the
\* next character to read.  Every pattern of the program that contains a
\* letter is compiled with re.IGNORECASE, so character sets are given in
\* lower case and compared after folding.
\* ------------------------------------------------------------------------
Ch(c) == [t |-> "set", s |-> {Lower(c)}]
Set(S) == [t |-> "set", s |-> S]
NotSet(S) == [t |-> "nset", s |-> S]
Cat(a) == [t |-> "cat", a |-> a]
Alt(a) == [t |-> "alt", a |-> a]
Rep(r, lo, hi, greedy) == [t |-> "rep", r |-> r, lo |-> lo, hi |-> hi, g |-> greedy]
Star(r) == Rep(r, 0, -1, TRUE)
LazyStar(r) == Rep(r, 0, -1, FALSE)
Plus(r) == Rep(r, 1, -1, TRUE)
Opt(r) == Rep(r, 0, 1, TRUE)
\* zero-width assertions
WordB == [t |-> "b"]
NotAfterWord == [t |-> "nlbw"]
NotBeforeWord == [t |-> "nlaw"]
AfterDigit == [t |-> "lbd"]
BeforeDigit == [t |-> "lad"]
\* a literal string
Lit(w) == [t |-> "lit", w |-> w]

\* p followed by the elements of q that p does not hold yet (p and q hold
\* no element twice)
Merge(p, q) == p \o SelectSeq(q, LAMBDA x : \A k \in 1..Len(p) : p[k] # x)

MinOf(S) == CHOOSE x \in S : \A y \in S : x <= y

\* does the one-character pattern r accept c
Accepts(r, c) == IF r.t = "set" THEN Lower(c) \in r.s ELSE Lower(c) \notin r.s

\* the end of the longest run of characters from i that r accepts
RunEnd(r, s, i) == MinOf({ k \in i..Len(s) : ~Accepts(r, s[k]) } \cup { Len(s) + 1 })

\* the ends of a repetition of a one-character pattern: the longest first
\* when greedy, the shortest first when lazy
EndsRun(r, s, i) ==
    LET run == RunEnd(r.r, s, i)
        hi  == IF r.hi = -1 \/ i + r.hi > run THEN run ELSE i + r.hi
        lo  == i + r.lo
    IN  IF hi < lo THEN << >>
        ELSE [ k \in 1..(hi - lo + 1) |-> IF r.g THEN hi - k + 1 ELSE lo + k - 1 ]

\* the end of word w spread over the non-space positions nsp of s from i
FuzzyEnd(w, s, nsp, i) ==
    IF /\ i <= Len(s)
       /\ Lower(s[i]) = Lower(w[1])
       /\ ~IsWord(s, i - 1)
       /\ Len(nsp) >= Len(w)
       /\ \A k \in 1..Len(w) : Lower(s[nsp[k]]) = Lower(w[k])
       /\ ~IsWord(s, nsp[Len(w)] + 1)
    THEN << nsp[Len(w)] + 1 >> ELSE << >>

\* the ends of a pattern without alternatives at i: an assertion, one
\* character, a literal, or a word with optional whitespace between its
\* letters (each \s* is followed by a letter, so it takes every space)
EndsAtom(r, s, i) ==
    CASE r.t = "set"  -> IF i <= Len(s) /\ Lower(s[i]) \in r.s THEN << i + 1 >> ELSE << >>
      [] r.t = "nset" -> IF i <= Len(s) /\ Lower(s[i]) \notin r.s THEN << i + 1 >> ELSE << >>
      [] r.t = "lit"  -> IF i + Len(r.w) - 1 <= Len(s)
                            /\ \A k \in 1..Len(r.w) : Lower(s[i + k - 1]) = Lower(r.w[k])
                         THEN << i + Len(r.w) >> ELSE << >>
      [] r.t = "fuzzy" -> FuzzyEnd(r.w, s, SelectSeq([ k \in 1..(Len(s) - i + 1) |-> i + k - 1 ],
                                                      LAMBDA k : s[k] \notin Space), i)
      [] r.t = "b"    -> IF IsWord(s, i - 1) # IsWord(s, i) THEN << i >> ELSE << >>
      [] r.t = "nlbw" -> IF ~IsWord(s, i - 1) THEN << i >> ELSE << >>
      [] r.t = "nlaw" -> IF ~IsWord(s, i) THEN << i >> ELSE << >>
      [] r.t = "lbd"  -> IF i > 1 /\ s[i - 1] \in Digit THEN << i >> ELSE << >>
      [] r.t = "lad"  -> IF i <= Len(s) /\ s[i] \in Digit THEN << i >> ELSE << >>

\* r after one iteration
OneLess(r) ==
    [r EXCEPT !.lo = IF r.lo > 0 THEN r.lo - 1 ELSE 0,
              !.hi = IF r.hi = -1 THEN -1 ELSE r.hi - 1]

RECURSIVE EndsFrom(_, _, _)
\* the ends of the matches of r in s that start at one of ps, in the order
\* the backtracking matcher tries them: the starts in the order of ps, and
\* for one start the alternatives in the order of the pattern
EndsFrom(r, s, ps) ==
    CASE ps = << >> -> << >>
      [] ps # << >> /\ r.t \in {"set", "nset", "lit"} ->
           \* one end per start, in the order of the starts
           [ k \in 1..Len(SelectSeq(ps, LAMBDA i : EndsAtom(r, s, i) # << >>)) |->
               EndsAtom(r, s, SelectSeq(ps, LAMBDA i : EndsAtom(r, s, i) # << >>)[k])[1] ]
      [] ps # << >> /\ r.t = "cat" /\ Len(r.a) = 0 -> ps
      [] ps # << >> /\ r.t = "cat" /\ Len(r.a) = 1 -> EndsFrom(r.a[1], s, ps)
      [] ps # << >> /\ r.t = "cat" /\ Len(r.a) > 1 ->
           \* the ends of the first part, in their order, are the starts of the rest
           EndsFrom(Cat(SubSeq(r.a, Len(r.a) \div 2 + 1, Len(r.a))), s,
                    EndsFrom(Cat(SubSeq(r.a, 1, Len(r.a) \div 2)), s, ps))
      [] Len(ps) > 1 /\ r.t \notin {"set", "nset", "lit", "cat"} ->
           Merge(EndsFrom(r, s, SubSeq(ps, 1, Len(ps) \div 2)),
                 EndsFrom(r, s, SubSeq(ps, Len(ps) \div 2 + 1, Len(ps))))
      [] Len(ps) = 1 /\ r.t = "alt" /\ r.a = << >> -> << >>
      [] Len(ps) = 1 /\ r.t = "alt" /\ r.a # << >> ->
           Merge(EndsFrom(Head(r.a), s, ps), EndsFrom(Alt(Tail(r.a)), s, ps))
      [] Len(ps) = 1 /\ r.t = "rep" /\ r.r.t \in {"set", "nset"} -> EndsRun(r, s, ps[1])
      [] Len(ps) = 1 /\ r.t = "rep" /\ r.r.t \notin {"set", "nset"} /\ r.hi = 0 ->
           IF r.lo <= 0 THEN ps ELSE << >>
      [] Len(ps) = 1 /\ r.t = "rep" /\ r.r.t \notin {"set", "nset"} /\ r.hi # 0 /\ r.g ->
           Merge(EndsFrom(OneLess(r), s, SelectSeq(EndsFrom(r.r, s, ps), LAMBDA e : e > ps[1])),
                 IF r.lo <= 0 THEN ps ELSE << >>)
      [] Len(ps) = 1 /\ r.t = "rep" /\ r.r.t \notin {"set", "nset"} /\ r.hi # 0 /\ ~r.g ->
           Merge(IF r.lo <= 0 THEN ps ELSE << >>,
                 EndsFrom(OneLess(r), s, SelectSeq(EndsFrom(r.r, s, ps), LAMBDA e : e > ps[1])))
      [] Len(ps) = 1 /\ r.t \notin {"set", "nset", "lit", "cat", "alt", "rep"} ->
           EndsAtom(r, s, ps[1])

\* the ends of the matches of r in s that start at i; the first one is the
\* end of the match re returns
Ends(r, s, i) == EndsFrom(r, s, << i >>)

\* the match at the leftmost of the starts that have one
FirstMatch(r, s, starts) ==
    IF starts = { } THEN << >> ELSE << MinOf(starts), Head(Ends(r, s, MinOf(starts))) >>

\* re.search from position i: << start, end >> of the leftmost match, or << >>
Search(r, s, i) ==
    IF i > Len(s) + 1 THEN << >>
    ELSE FirstMatch(r, s, { k \in i..(Len(s) + 1) : Ends(r, s, k) # << >> })

Matches(r, s) == Search(r, s, 1) # << >>

\* m.group(0)
Group0(s, m) == SubSeq(s, m[1], m[2] - 1)

RECURSIVE SplitAt(_, _, _, _)
\* the end of a in the match of "a b" that starts where es was computed:
\* the first end of a from which b matches
SplitAt(es, b, s, none) ==
    IF es = << >> THEN none
    ELSE IF Ends(b, s, Head(es)) # << >> THEN Head(es)
    ELSE SplitAt(Tail(es), b, s, none)

RECURSIVE SubFrom(_, _, _, _), SubAt(_, _, _, _, _)
\* re.sub(r, repl, s) from position i: every non-overlapping match, left to
\* right (no pattern of the program matches the empty string)
SubFrom(r, repl, s, i) == SubAt(r, repl, s, i, Search(r, s, i))

SubAt(r, repl, s, i, m) ==
    IF m = << >> \/ m[2] = m[1] THEN SubSeq(s, i, Len(s))
    ELSE SubSeq(s, i, m[1] - 1) \o repl \o SubFrom(r, repl, s, m[2])

Sub(r, repl, s) == IF s = << >> THEN << >> ELSE SubFrom(r, repl, s, 1)

\* str.strip()
Strip(s) ==
    LET keep == { k \in 1..Len(s) : s[k] \notin Space }
    IN  IF keep = { } THEN << >>
        ELSE SubSeq(s, MinOf(keep), CHOOSE x \in keep : \A y \in keep : y <= x)

\* sub in s
Contains(s, sub) ==
    \E k \in 1..(Len(s) - Len(sub) + 1) : SubSeq(s, k, k + Len(sub) - 1) = sub

\* s.startswith(p), s.endswith(p)
StartsWith(s, p) == Len(s) >= Len(p) /\ SubSeq(s, 1, Len(p)) = p
EndsWith(s, p) == Len(s) >= Len(p) /\ SubSeq(s, Len(s) - Len(p) + 1, Len(s)) = p

DigitVal(c) == (CHOOSE k \in DOMAIN DIGITS : DIGITS[k] = c) - 1

RECURSIVE ToInt(_)
\* int(s) for a string of decimal digits
ToInt(s) == IF s = << >> THEN 0 ELSE 10 * ToInt(SubSeq(s, 1, Len(s) - 1)) + DigitVal(s[Len(s)])

\* s.replace(c, "")
Remove(s, c) == SelectSeq(s, LAMBDA x : x # c)

\* ------------------------------------------------------------------------
\* Stage 2: text normalizer and patterns (2_extract_company.py)
\* ------------------------------------------------------------------------
RECURSIVE RStripPattern(_)
\* "".join(parts).rstrip(r"\s*") removes the trailing \s* of the last letter
\* and with it every trailing letter s of the word
RStripPattern(word) ==
    IF word # << >> /\ word[Len(word)] = "s" THEN RStripPattern(SubSeq(word, 1, Len(word) - 1))
    ELSE word

\* (?<!\w) l1 \s* l2 \s* ... ln (?!\w)
make_fuzzy_token(word) == [t |-> "fuzzy", w |-> RStripPattern(word)]

W_Schoeck_uml == << "S","c","h","ö","c","k" >>
W_Schoeck == << "S","c","h","o","e","c","k" >>
W_Isokorb == << "I","s","o","k","o","r","b" >>
W_Tronsole == << "T","r","o","n","s","o","l","e" >>
W_Tronsolen == << "T","r","o","n","s","o","l","e","n" >>
W_Stacon == << "S","t","a","c","o","n" >>
W_Brandschutz == << "B","r","a","n","d","s","c","h","u","t","z","m","a","n","s","c","h","e","t","t","e" >>

CANONICAL_FIXES ==
    << W_Schoeck_uml, W_Schoeck, W_Isokorb, W_Tronsole, W_Tronsolen, W_Stacon, W_Brandschutz >>

RECURSIVE FixTokens(_, _)
FixTokens(s, k) ==
    IF k > Len(CANONICAL_FIXES) \/ s = << >> THEN s
    ELSE FixTokens(Sub(make_fuzzy_token(CANONICAL_FIXES[k]), CANONICAL_FIXES[k], s), k + 1)

UnitStGlitch == Cat(<< Ch("S"), Star(Set(Space)), Ch("t"), WordB >>)
HyphenGlitch == Cat(<< Star(Set(Space)), Ch("-"), Star(Set(Space)) >>)
DigitGap == Cat(<< AfterDigit, Plus(Set(Space)), BeforeDigit >>)

clean_line_for_matching(line) ==
    Sub(DigitGap, << >>,
        Sub(HyphenGlitch, << "-" >>,
            Sub(UnitStGlitch, << "S", "t" >>,
                FixTokens(line, 1))))

COMPETITORS == { << "h","a","l","f","e","n" >>, << "h","i","t" >>,
                 << "t","e","b","e","a" >>, << "a","r","b","o","x" >> }

\* the families in the order of the dict FAMILY_PATTERNS
FAMILY_PATTERNS ==
    << [name |-> "Isokorb", patt |-> make_fuzzy_token(W_Isokorb)],
       [name |-> "Tronsole", patt |-> make_fuzzy_token(W_Tronsole)],
       [name |-> "Stacon", patt |-> make_fuzzy_token(W_Stacon)],
       [name |-> "Tronsolen", patt |-> make_fuzzy_token(W_Tronsolen)] >>

Digits1 == Plus(Set(Digit))
Dot == Ch(".")
Sp0 == Star(Set(Space))

LV_PATTERN ==
    Cat(<< WordB, Digits1, Plus(Cat(<< Sp0, Dot, Sp0, Digits1 >>)), Sp0, Dot >>)

QtyGroup ==
    Cat(<< Rep(Set(Digit), 1, 3, TRUE),
           Star(Cat(<< Set({".", ","}), Rep(Set(Digit), 3, 3, TRUE) >>)) >>)
UnitGroup == Alt(<< Cat(<< Ch("S"), Sp0, Ch("t") >>), Lit(<< "S", "t" >>), Ch("m") >>)
QTY_UNIT_PATTERN == Cat(<< QtyGroup, Sp0, UnitGroup, WordB >>)

CodeFill == Set({"-"} \cup Space \cup WordCh)
ISOKORB_CODE ==
    Cat(<< Alt(<< Cat(<< Ch("K"), Ch("-"), Plus(Set(WordCh)) >>),
                  Cat(<< Ch("Q"), Opt(Cat(<< Sp0, Opt(Ch("-")), Sp0, Ch("V"), Digits1 >>)) >>) >>),
           Star(CodeFill), Lit(<< "R", "E", "I" >>), Digits1,
           LazyStar(CodeFill), Opt(Cat(<< Lit(<< "C", "V" >>), Digits1 >>)),
           Star(CodeFill), Ch("X"), Digits1,
           Star(CodeFill), Ch("H"), Digits1 >>)

TypLabel == Cat(<< Lit(<< "T", "y", "p" >>), Star(Set({":"} \cup Space)) >>)
\* [A-Z] under IGNORECASE: the ASCII letters only
AsciiLetter == LowerSet \ { "ö" }
TypGroup == Plus(Set(AsciiLetter \cup Digit \cup {"/", "-"} \cup Space))
TRONSOLE_CODE == Cat(<< TypLabel, TypGroup >>)

CodeTail == Plus(NotSet(Space \cup {",", ";", "/"}))
STACON_CODE ==
    Alt(<< Cat(<< Lit(<< "S", "L", "D" >>), CodeTail >>),
           Cat(<< Lit(<< "L", "S", "-", "Q" >>), CodeTail >>) >>)

\* a variant of line 97 that knows no competitor
no_competitor(line_lower) == FALSE

looks_like_competitor(line_lower) == \E w \in COMPETITORS : Contains(line_lower, w)

LOOKAHEAD == 3
MaxSourceLine == 500

PageMarkerHead == << "-", "-", "-", " ", "[", "P", "A", "G", "E", " " >>
PageMarkerTail == << "]", " ", "-", "-", "-" >>
VendorUml == << "s", "c", "h", "ö", "c", "k" >>
VendorOe == << "s", "c", "h", "o", "e", "c", "k" >>

\* line.startswith("--- [PAGE ") and line.endswith("] ---")
IsPageMarker(line) == StartsWith(line, PageMarkerHead) /\ EndsWith(line, PageMarkerTail)

GroupOrNone(s, m, none) == IF m = << >> THEN none ELSE Group0(s, m)

\* int(re.findall(r"\d+", line)[0]), None when the line has no digit
FirstNumber(line, m) == IF m = << >> THEN NoneInt ELSE ToInt(Group0(line, m))
MarkerPage(line) == FirstNumber(line, Search(Digits1, line, 1))

\* "schöck" in clower or "schoeck" in clower
MentionsVendor(clower) == Contains(clower, VendorUml) \/ Contains(clower, VendorOe)

FirstFamily(hits) == IF hits = { } THEN None ELSE FAMILY_PATTERNS[MinOf(hits)].name

\* the first family, in dict order, whose pattern is found in cline
FamilyIn(cline) ==
    FirstFamily({ k \in DOMAIN FAMILY_PATTERNS : Matches(FAMILY_PATTERNS[k].patt, cline) })

FamilyOr(own, ls, i) ==
    IF own # None THEN own
    ELSE IF i > 1 THEN FamilyIn(clean_line_for_matching(Strip(ls[i - 1])))
    ELSE None

\* the family of line i: on the line itself, else on the line before it
DetectFamily(ls, i, cline) == FamilyOr(FamilyIn(cline), ls, i)

\* " ".join([cline] + [clean_line_for_matching(x.strip()) for x in lines[idx+1: idx+2]])
Segment(ls, i, cline) ==
    IF i + 1 <= Len(ls)
    THEN cline \o << " " >> \o clean_line_for_matching(Strip(ls[i + 1]))
    ELSE cline

TypPrefix == << "T", "y", "p", " " >>

\* "Typ " + m.group(1).strip()
TypCode(segment, m) ==
    IF m = << >> THEN << >>
    ELSE TypPrefix \o Strip(SubSeq(segment,
                                   SplitAt(Ends(TypLabel, segment, m[1]), TypGroup, segment, 0),
                                   m[2] - 1))

ProductCode(family, segment) ==
    CASE family = "Isokorb" -> Strip(GroupOrNone(segment, Search(ISOKORB_CODE, segment, 1), << >>))
      [] family = "Tronsole" -> TypCode(segment, Search(TRONSOLE_CODE, segment, 1))
      [] family = "Stacon" -> Strip(GroupOrNone(segment, Search(STACON_CODE, segment, 1), << >>))
      [] OTHER -> << >>

MinNat(a, b) == IF a <= b THEN a ELSE b

\* the lines idx .. idx+LOOKAHEAD that exist
Window(ls, i) == i..MinNat(i + LOOKAHEAD, Len(ls))

\* m.group("qty") and m.group("unit") of the match m in cj, qe the end of qty
QtyParts(cj, m, qe) ==
    [ qty  |-> ToInt(Remove(Remove(SubSeq(cj, m[1], qe - 1), "."), ",")),
      unit |-> Remove(SubSeq(cj, SplitAt(Ends(Sp0, cj, qe), Cat(<< UnitGroup, WordB >>), cj, 0),
                             m[2] - 1), " ") ]

QtyOf(cj, m) ==
    QtyParts(cj, m, SplitAt(Ends(QtyGroup, cj, m[1]), Cat(<< Sp0, UnitGroup, WordB >>), cj, 0))

QtyIn(cj) == QtyOf(cj, Search(QTY_UNIT_PATTERN, cj, 1))

QtyAt(ls, hits) ==
    IF hits = { } THEN [qty |-> NoneInt, unit |-> NoneText]
    ELSE QtyIn(clean_line_for_matching(ls[MinOf(hits)]))

\* the first quantity+unit pair in the window: [qty, unit], both None when
\* no line of the window has one
FindQty(ls, i) ==
    QtyAt(ls, { j \in Window(ls, i) : Matches(QTY_UNIT_PATTERN, clean_line_for_matching(ls[j])) })

\* current_lv after the "Track LV position" statement
TrackLv(cline, lv) == GroupOrNone(cline, Search(LV_PATTERN, cline, 1), lv)

Row(i, page, lv, line, family, code, q) ==
    [ document     |-> "doc.pdf",
      page         |-> page,
      lv_position  |-> lv,
      family       |-> family,
      product_code |-> code,
      quantity     |-> q.qty,
      unit         |-> q.unit,
      source_line  |-> SubSeq(line, 1, MinNat(MaxSourceLine, Len(line))),
      line_no      |-> i ]    \* bookkeeping: the index of the source line

Skip(kind, page, lv) == [kind |-> kind, page |-> page, lv |-> lv, out |-> << >>]

\* a variant of line 183 that asks for a family only
BuildRowAlways(i, page, lv, line, family, code, q) ==
    [kind |-> "emit", page |-> page, lv |-> lv,
     out |-> << Row(i, page, lv, line, family, code, q) >>]

\* lines 183-193: a row when there is a quantity or a product code
BuildRow(i, page, lv, line, family, code, q) ==
    IF q.qty # NoneInt \/ code # << >>
    THEN [kind |-> "emit", page |-> page, lv |-> lv,
          out |-> << Row(i, page, lv, line, family, code, q) >>]
    ELSE Skip("discard", page, lv)

\* lines 153-180
Candidate(ls, i, page, lv, line, cline, family) ==
    IF family = None THEN Skip("nofamily", page, lv)
    ELSE BuildRow(i, page, lv, line, family,
                  ProductCode(family, Segment(ls, i, cline)), FindQty(ls, i))

\* lines 129-151
Gate(ls, i, page, lv, line, cline, clower) ==
    IF ~MentionsVendor(clower) THEN Skip("novendor", page, lv)
    ELSE IF looks_like_competitor(clower) THEN Skip("competitor", page, lv)
    ELSE Candidate(ls, i, page, lv, line, cline, DetectFamily(ls, i, cline))

\* lines 124-127
Content(ls, i, page, lv, line, cline) ==
    Gate(ls, i, page, TrackLv(cline, lv), line, cline, LowerStr(cline))

\* a variant of lines 117-127 that tracks the LV position before it looks for
\* the page marker
BodyLvFirst(ls, i, page, lv, line) ==
    IF IsPageMarker(line)
    THEN Skip("marker", MarkerPage(line), TrackLv(clean_line_for_matching(line), lv))
    ELSE Content(ls, i, page, lv, line, clean_line_for_matching(line))

\* lines 110-122
Body(ls, i, page, lv, line) ==
    IF IsPageMarker(line) THEN Skip("marker", MarkerPage(line), lv)
    ELSE Content(ls, i, page, lv, line, clean_line_for_matching(line))

\* One iteration of the loop of parse_txt_file on line i: which branch it
\* takes, the carried state after it, and the rows it appends.
Iteration(ls, i, page, lv) == Body(ls, i, page, lv, Strip(ls[i]))

Take(it) ==
    /\ current_page' = it.page
    /\ current_lv' = it.lv
    /\ rows' = rows \o it.out
    /\ idx' = idx + 1
    /\ UNCHANGED << lines, scan_pc, loadVars, fileVars, mainVars, procVars >>

\* the body of the loop on the line at idx
ScanLine ==
    /\ scan_pc = "scan"
    /\ idx <= Len(lines)
    /\ Take(Iteration(lines, idx, current_page, current_lv))

\* the loop is over: return rows
ScanReturn ==
    /\ scan_pc = "scan"
    /\ idx > Len(lines)
    /\ scan_pc' = "done"
    /\ UNCHANGED << lines, idx, current_page, current_lv, rows >>
    /\ UNCHANGED << loadVars, fileVars, mainVars, procVars >>

\* ------------------------------------------------------------------------
\* Input text files of the scan
\* ------------------------------------------------------------------------
\* "--- [PAGE 3] ---"
L_Page3 ==
    << "-", "-", "-", " ", "[", "P", "A", "G", "E", " ", "3", "]", " ", "-", "-", "-" >>
\* "--- [PAGE 2.1.] ---"
L_PageLv ==
    << "-", "-", "-", " ", "[", "P", "A", "G", "E", " ", "2", ".", "1", ".", "]", " ", "-", "-", "-" >>
\* "6.1.2310. Schöck Isokorb K-M6-V1-REI120-CV35-X120-H220 10,000 St"
L_Scenario1 ==
    << "6", ".", "1", ".", "2", "3", "1", "0", ".", " ", "S", "c", "h", "ö", "c", "k", " ", "I", "s", "o", "k", "o", "r", "b", " ", "K", "-", "M", "6", "-", "V", "1", "-", "R", "E", "I", "1", "2", "0", "-", "C", "V", "3", "5", "-", "X", "1", "2", "0", "-", "H", "2", "2", "0", " ", "1", "0", ",", "0", "0", "0", " ", "S", "t" >>
\* "Schöck Isokorb"
L_Isokorb ==
    << "S", "c", "h", "ö", "c", "k", " ", "I", "s", "o", "k", "o", "r", "b" >>
\* " S c h o e c k Tronsolen"
L_Tronsolen ==
    << " ", "S", " ", "c", " ", "h", " ", "o", " ", "e", " ", "c", " ", "k", " ", "T", "r", "o", "n", "s", "o", "l", "e", "n" >>
\* "12 S t"
L_Qty ==
    << "1", "2", " ", "S", " ", "t" >>
\* "Schöck Tronsole Typ F"
L_TypCode ==
    << "S", "c", "h", "ö", "c", "k", " ", "T", "r", "o", "n", "s", "o", "l", "e", " ", "T", "y", "p", " ", "F" >>
\* "Halfen Schöck Stacon SLD-20 5 m"
L_Competitor ==
    << "H", "a", "l", "f", "e", "n", " ", "S", "c", "h", "ö", "c", "k", " ", "S", "t", "a", "c", "o", "n", " ", "S", "L", "D", "-", "2", "0", " ", "5", " ", "m" >>
\* "7 . 2. Stacon SLD-200"
L_LvStacon ==
    << "7", " ", ".", " ", "2", ".", " ", "S", "t", "a", "c", "o", "n", " ", "S", "L", "D", "-", "2", "0", "0" >>
\* "Schoeck"
L_Vendor ==
    << "S", "c", "h", "o", "e", "c", "k" >>
\* ""
L_Empty ==
    << >>
\* "schöck isokorb Q-V1 REI30 X1 H2"
L_IsokorbCode ==
    << "s", "c", "h", "ö", "c", "k", " ", "i", "s", "o", "k", "o", "r", "b", " ", "Q", "-", "V", "1", " ", "R", "E", "I", "3", "0", " ", "X", "1", " ", "H", "2" >>

Menu == { L_Page3, L_PageLv, L_Isokorb, L_Tronsolen, L_Qty, L_TypCode, L_Competitor, L_LvStacon, L_Vendor, L_Empty, L_IsokorbCode }
Fillers == { L_Empty, L_PageLv }

\* the longest run of filler lines between two lines of a file
MaxGap == 4

Fill(f, k) == [ j \in 1..k |-> f ]

\* the files that hold the line of end-to-end scenario 1
ScenarioDocs ==
    { pre \o << L_Scenario1 >> \o post :
        pre \in { << >>, << L_Page3 >>, << L_Page3, L_LvStacon >> },
        post \in { << >>, << L_Qty >>, << L_Page3, L_Isokorb >> } }

\* files of one or two lines, files of two lines with a run of filler lines
\* between them, and the scenario files
Docs ==
    { << a >> : a \in Menu }
    \cup { << a, b >> : a \in Menu, b \in Menu }
    \cup UNION { { << a >> \o Fill(f, k) \o << b >> : a \in Menu, b \in Menu } :
                 f \in Fillers, k \in 1..MaxGap }
    \cup ScenarioDocs


\* ========================================================================
\* Stage 1: 1_extract_text.py
\* ========================================================================
MIN_CHARS_PER_PAGE == 20
SPARSE_TEXT_CHARS == 800
SPARSE_WORDS == 80
VECTOR_OBJECT_THRESHOLD == 30

\* the fall-back of "os.cpu_count() or 2" and the cap of the default
CpuFallback == 2
WorkerCap == 8

MaxNat(a, b) == IF a >= b THEN a ELSE b

\* str.isdigit() on the values the environment holds here
IsDigitStr(s) == s # << >> /\ \A k \in 1..Len(s) : s[k] \in Digit

\* line 46: min(os.cpu_count() or 2, 8)
DefaultWorkers(cpu) == MinNat(IF cpu = NoneInt THEN CpuFallback ELSE cpu, WorkerCap)

\* line 48: _env and _env.isdigit()
EnvOverrides(env) == env # NoneText /\ env # << >> /\ IsDigitStr(env)

\* a variant of line 49 without the lower limit: int(_env)
OverrideUnclamped(env) == ToInt(env)

\* line 49: max(1, int(_env))
OverrideWorkers(env) == MaxNat(1, ToInt(env))

\* line 46
LoadDefault ==
    /\ load_pc = "default"
    /\ MAX_WORKERS' = DefaultWorkers(cpu_count)
    /\ load_pc' = "getenv"
    /\ UNCHANGED << cpu_count, env_value, scanVars, fileVars, mainVars, procVars >>

\* lines 47-49, the override is taken
LoadOverride ==
    /\ load_pc = "getenv"
    /\ EnvOverrides(env_value)
    /\ MAX_WORKERS' = OverrideWorkers(env_value)
    /\ load_pc' = "loaded"
    /\ UNCHANGED << cpu_count, env_value, scanVars, fileVars, mainVars, procVars >>

\* lines 47-48, the condition is false
LoadKeep ==
    /\ load_pc = "getenv"
    /\ ~EnvOverrides(env_value)
    /\ load_pc' = "loaded"
    /\ UNCHANGED << cpu_count, env_value, MAX_WORKERS, scanVars, fileVars, mainVars, procVars >>

\* ------------------------------------------------------------------------
\* Page texts.  The text pdfplumber extracts from a page is known by its
\* length: pad white-space characters around chars other characters.  An OCR
\* text is a string.  A section of a blob is a page marker and a text.
\* ------------------------------------------------------------------------
Raise == << "raise" >>

\* (page.extract_text() or "").strip()
StripDigital(raw) == [src |-> "digital", len |-> raw.chars, chars |-> << >>]

OcrText(s) == [src |-> "ocr", len |-> Len(s), chars |-> s]

NoText == [src |-> "none", len |-> 0, chars |-> << >>]

\* f"\n--- [PAGE {n}] ---\n{txt}"
Section(n, txt) == [page |-> n, text |-> txt]

\* a slot that holds None
NoSection == Section(NoneInt, NoText)

\* [None] * n
NoneSlots(n) == [ k \in 1..n |-> NoSection ]

\* \b[1Il\|]EBEA(\s*®)?\b with re.IGNORECASE
GlitchHead == Cat(<< WordB, Set({"1", "i", "l", "|"}), Lit(<< "E", "B", "E", "A" >>) >>)
GlitchGroup == Cat(<< Star(Set(Space)), Ch("®") >>)
BRAND_GLITCH_PATTERNS == Cat(<< GlitchHead, Opt(GlitchGroup), WordB >>)
Tebea == << "T", "E", "B", "E", "A" >>

RECURSIVE GlitchFrom(_, _), GlitchAt(_, _, _)
\* pat.sub(r"TEBEA\1", text) from position i: group 1 is what the match
\* holds after its five leading characters
GlitchFrom(s, i) == GlitchAt(s, i, Search(BRAND_GLITCH_PATTERNS, s, i))

GlitchAt(s, i, m) ==
    IF m = << >> THEN SubSeq(s, i, Len(s))
    ELSE SubSeq(s, i, m[1] - 1) \o Tebea \o SubSeq(s, m[1] + Len(Tebea), m[2] - 1)
         \o GlitchFrom(s, m[2])

normalize_known_ocr_brand_glitches(s) == GlitchFrom(s, 1)

\* len(words) in is_sparse_digital_page: no word when extract_words raises
WordCount(page) == IF page.words_ok THEN page.words ELSE 0

VectorCount(page) == page.rects + page.lines + page.curves + page.images

\* a variant of line 102 with a strict comparison
is_sparse_strict(page, txt) ==
    IF txt.len >= SPARSE_TEXT_CHARS THEN FALSE
    ELSE IF WordCount(page) >= SPARSE_WORDS THEN FALSE
    ELSE VectorCount(page) > VECTOR_OBJECT_THRESHOLD

is_sparse_digital_page(page, txt) ==
    IF txt.len >= SPARSE_TEXT_CHARS THEN FALSE
    ELSE IF WordCount(page) >= SPARSE_WORDS THEN FALSE
    ELSE VectorCount(page) >= VECTOR_OBJECT_THRESHOLD

\* lines 137-148: does page go to OCR
NeedsOcr(page, txt) ==
    IF txt.len = 0 \/ txt.len < MIN_CHARS_PER_PAGE THEN TRUE
    ELSE is_sparse_digital_page(page, txt)

\* a variant of line 170 with a strict comparison
is_strictly_newer(src_mtime, out) ==
    IF ~out.exists THEN FALSE ELSE out.mtime > src_mtime

\* is_up_to_date(pdf_path, txt_path)
is_up_to_date(src_mtime, out) ==
    IF ~out.exists THEN FALSE ELSE out.mtime >= src_mtime

\* ------------------------------------------------------------------------
\* main, process_pdf, extract_text_mixed and the executor
\* ------------------------------------------------------------------------
\* the names a PDF of data/input can have, in sorted order
PdfNames == << "a.pdf", "b.pdf" >>

\* sorted(IN_DIR.glob("*.pdf"))
Sorted(dir) == SelectSeq(PdfNames, LAMBDA n : n \in dir)

\* pdf_path in process_pdf, and what that PDF holds
Name == pdfs[di]
Cur == content[pdfs[di]]

NoFile == [exists |-> FALSE, text |-> << >>, mtime |-> 0]

\* future k of the executor: the page it is for, "queued", "running", "done"
\* or "failed", what the call returns or Raise, and whether as_completed has
\* yielded it
Task(p, out) == [page |-> p, st |-> "queued", out |-> out, seen |-> FALSE]

Queued(fs) == { k \in DOMAIN fs : fs[k].st = "queued" }
Running(fs) == { k \in DOMAIN fs : fs[k].st = "running" }
Finished(fs) == { k \in DOMAIN fs : fs[k].st \in {"done", "failed"} }

\* a variant of the executor's exit that does not wait: shutdown(wait=False)
NoWait(fs) == TRUE

\* shutdown(wait=True) returns: every submitted call has run
AllFinished(fs) == Finished(fs) = DOMAIN fs

\* as_completed has yielded every future
AllSeen(fs) == \A k \in DOMAIN fs : fs[k].seen

\* f"\n--- [PAGE {pno}] ---\n{normalize_known_ocr_brand_glitches(ocr_txt)}"
OcrSection(f) == Section(f.page, OcrText(normalize_known_ocr_brand_glitches(f.out)))

\* the slots that still hold None
FreeSlots(slots) == { k \in DOMAIN slots : slots[k] = NoSection }

\* a variant of lines 159 and 199 that appends in completion order
FillNextFree(slots, f) ==
    IF FreeSlots(slots) = { } THEN slots
    ELSE [slots EXCEPT ![MinOf(FreeSlots(slots))] = OcrSection(f)]

\* slots[pno - 1] = ...
Fill1(slots, f) == [slots EXCEPT ![f.page] = OcrSection(f)]

\* "".join(slots) raises TypeError when a slot holds None
JoinRaises(slots) == FreeSlots(slots) # { }

\* process_pdf returns or raises: its locals are gone
DropLocals ==
    /\ page_idx' = 0
    /\ pieces' = << >>
    /\ pages_for_ocr' = << >>
    /\ futs' = << >>
    /\ results' = << >>
    /\ text' = << >>

\* process_pdf returned: the for loop of main goes on
Advance ==
    /\ di' = di + 1
    /\ pc' = IF di + 1 > Len(pdfs) THEN "idle" ELSE "check"
    /\ main_pc' = IF di + 1 > Len(pdfs) THEN "done" ELSE "loop"
    /\ pdfs' = pdfs
    /\ DropLocals

\* an exception leaves process_pdf: main has no handler
Abort ==
    /\ main_pc' = "aborted"
    /\ pc' = "idle"
    /\ UNCHANGED << pdfs, di >>
    /\ DropLocals

\* main, lines 207 and 211
MainStart ==
    /\ load_pc = "loaded"
    /\ main_pc = "start"
    /\ in_dir # { }
    /\ pdfs' = Sorted(in_dir)
    /\ di' = 1
    /\ main_pc' = "loop"
    /\ pc' = "check"
    /\ UNCHANGED << page_idx, pieces, pages_for_ocr, futs, results, text >>
    /\ UNCHANGED << scanVars, loadVars, fileVars >>

\* main, lines 208-210
MainNoPdfs ==
    /\ load_pc = "loaded"
    /\ main_pc = "start"
    /\ in_dir = { }
    /\ pdfs' = << >>
    /\ main_pc' = "done"
    /\ UNCHANGED << di, procVars, scanVars, loadVars, fileVars >>

\* process_pdf, lines 177-179
ProcessSkip ==
    /\ pc = "check"
    /\ is_up_to_date(pdf_mtime[Name], out_file[Name])
    /\ Advance
    /\ UNCHANGED << scanVars, loadVars, fileVars >>

\* process_pdf, lines 177 and 181
ProcessBegin ==
    /\ pc = "check"
    /\ ~is_up_to_date(pdf_mtime[Name], out_file[Name])
    /\ pc' = "open"
    /\ UNCHANGED << page_idx, pieces, pages_for_ocr, futs, results, text >>
    /\ UNCHANGED << scanVars, loadVars, fileVars, mainVars >>

\* extract_text_mixed, lines 126-131
OpenPdf ==
    /\ pc = "open"
    /\ Cur.open_ok
    /\ pieces' = NoneSlots(Len(Cur.pages))
    /\ pages_for_ocr' = << >>
    /\ page_idx' = 1
    /\ pc' = "scan"
    /\ UNCHANGED << futs, results, text, scanVars, loadVars, fileVars, mainVars >>

\* pdfplumber.open raises: line 184
OpenRaises ==
    /\ pc = "open"
    /\ ~Cur.open_ok
    /\ pc' = "fallback"
    /\ UNCHANGED << page_idx, pieces, pages_for_ocr, futs, results, text >>
    /\ UNCHANGED << scanVars, loadVars, fileVars, mainVars >>

\* lines 137-148 on the page at i
Route(page, i, txt) ==
    IF NeedsOcr(page, txt)
    THEN /\ pages_for_ocr' = Append(pages_for_ocr, i)
         /\ pieces' = pieces
    ELSE /\ pieces' = [pieces EXCEPT ![i] = Section(i, txt)]
         /\ pages_for_ocr' = pages_for_ocr

\* extract_text_mixed, the body of the page loop, lines 133-148
ScanPage ==
    /\ pc = "scan"
    /\ page_idx <= Len(Cur.pages)
    /\ Route(Cur.pages[page_idx], page_idx, StripDigital(Cur.pages[page_idx]))
    /\ page_idx' = page_idx + 1
    /\ UNCHANGED << pc, futs, results, text, scanVars, loadVars, fileVars, mainVars >>

\* lines 151-156
SubmitOcr ==
    /\ pc = "scan"
    /\ page_idx > Len(Cur.pages)
    /\ pages_for_ocr # << >>
    /\ futs' = [ k \in DOMAIN pages_for_ocr |->
                   Task(pages_for_ocr[k], Cur.pages[pages_for_ocr[k]].ocr) ]
    /\ pc' = "ocr"
    /\ UNCHANGED << page_idx, pieces, pages_for_ocr, results, text >>
    /\ UNCHANGED << scanVars, loadVars, fileVars, mainVars >>

\* line 151, no page needs OCR
NoOcr ==
    /\ pc = "scan"
    /\ page_idx > Len(Cur.pages)
    /\ pages_for_ocr = << >>
    /\ pc' = "join"
    /\ UNCHANGED << page_idx, pieces, pages_for_ocr, futs, results, text >>
    /\ UNCHANGED << scanVars, loadVars, fileVars, mainVars >>

\* a free worker thread takes the oldest queued call
WorkerStart ==
    /\ pc \in {"ocr", "unwind", "fb_ocr", "fb_unwind"}
    /\ Queued(futs) # { }
    /\ Cardinality(Running(futs)) < MAX_WORKERS
    /\ futs' = [futs EXCEPT ![MinOf(Queued(futs))].st = "running"]
    /\ UNCHANGED << pc, page_idx, pieces, pages_for_ocr, results, text >>
    /\ UNCHANGED << scanVars, loadVars, fileVars, mainVars >>

\* a call returns or raises
WorkerFinish ==
    /\ pc \in {"ocr", "unwind", "fb_ocr", "fb_unwind"}
    /\ \E k \in Running(futs) :
          futs' = [futs EXCEPT ![k].st = IF futs[k].out = Raise THEN "failed" ELSE "done"]
    /\ UNCHANGED << pc, page_idx, pieces, pages_for_ocr, results, text >>
    /\ UNCHANGED << scanVars, loadVars, fileVars, mainVars >>

\* lines 157-159: as_completed yields a future that returned
CollectResult ==
    /\ pc = "ocr"
    /\ \E k \in DOMAIN futs :
          /\ futs[k].st = "done"
          /\ ~futs[k].seen
          /\ pieces' = Fill1(pieces, futs[k])
          /\ futs' = [futs EXCEPT ![k].seen = TRUE]
    /\ UNCHANGED << pc, page_idx, pages_for_ocr, results, text >>
    /\ UNCHANGED << scanVars, loadVars, fileVars, mainVars >>

\* line 158: fut.result() raises
CollectRaises ==
    /\ pc = "ocr"
    /\ \E k \in DOMAIN futs :
          /\ futs[k].st = "failed"
          /\ ~futs[k].seen
          /\ futs' = [futs EXCEPT ![k].seen = TRUE]
    /\ pc' = "unwind"
    /\ UNCHANGED << page_idx, pieces, pages_for_ocr, results, text >>
    /\ UNCHANGED << scanVars, loadVars, fileVars, mainVars >>

\* the with block of line 152 is left after the last future
OcrDone ==
    /\ pc = "ocr"
    /\ AllSeen(futs)
    /\ pc' = "join"
    /\ UNCHANGED << page_idx, pieces, pages_for_ocr, futs, results, text >>
    /\ UNCHANGED << scanVars, loadVars, fileVars, mainVars >>

\* line 162
JoinPieces ==
    /\ pc = "join"
    /\ pc' = IF JoinRaises(pieces) THEN "fallback" ELSE "write"
    /\ text' = IF JoinRaises(pieces) THEN text ELSE pieces
    /\ UNCHANGED << page_idx, pieces, pages_for_ocr, futs, results >>
    /\ UNCHANGED << scanVars, loadVars, fileVars, mainVars >>

\* the with block of line 152 is left by the exception: the executor is
\* shut down, then the exception reaches line 184
Unwound ==
    /\ pc = "unwind"
    /\ AllFinished(futs)
    /\ pc' = "fallback"
    /\ UNCHANGED << page_idx, pieces, pages_for_ocr, futs, results, text >>
    /\ UNCHANGED << scanVars, loadVars, fileVars, mainVars >>

\* lines 187-196
FallbackRender ==
    /\ pc = "fallback"
    /\ Cur.render_ok
    /\ results' = NoneSlots(Len(Cur.pages))
    /\ futs' = [ i \in DOMAIN Cur.pages |-> Task(i, Cur.pages[i].fb) ]
    /\ pc' = "fb_ocr"
    /\ UNCHANGED << page_idx, pieces, pages_for_ocr, text >>
    /\ UNCHANGED << scanVars, loadVars, fileVars, mainVars >>

\* line 187: convert_from_path raises
FallbackRenderRaises ==
    /\ pc = "fallback"
    /\ ~Cur.render_ok
    /\ Abort
    /\ UNCHANGED << scanVars, loadVars, fileVars >>

\* lines 197-199
FallbackCollectResult ==
    /\ pc = "fb_ocr"
    /\ \E k \in DOMAIN futs :
          /\ futs[k].st = "done"
          /\ ~futs[k].seen
          /\ results' = Fill1(results, futs[k])
          /\ futs' = [futs EXCEPT ![k].seen = TRUE]
    /\ UNCHANGED << pc, page_idx, pieces, pages_for_ocr, text >>
    /\ UNCHANGED << scanVars, loadVars, fileVars, mainVars >>

\* line 198: fut.result() raises
FallbackCollectRaises ==
    /\ pc = "fb_ocr"
    /\ \E k \in DOMAIN futs :
          /\ futs[k].st = "failed"
          /\ ~futs[k].seen
          /\ futs' = [futs EXCEPT ![k].seen = TRUE]
    /\ pc' = "fb_unwind"
    /\ UNCHANGED << page_idx, pieces, pages_for_ocr, results, text >>
    /\ UNCHANGED << scanVars, loadVars, fileVars, mainVars >>

\* line 200
FallbackJoin ==
    /\ pc = "fb_ocr"
    /\ AllSeen(futs)
    /\ text' = results
    /\ pc' = "write"
    /\ UNCHANGED << page_idx, pieces, pages_for_ocr, futs, results >>
    /\ UNCHANGED << scanVars, loadVars, fileVars, mainVars >>

\* the with block of line 195 is left by the exception, which then leaves
\* process_pdf and main
FallbackUnwound ==
    /\ pc = "fb_unwind"
    /\ AllFinished(futs)
    /\ Abort
    /\ UNCHANGED << scanVars, loadVars, fileVars >>

\* line 202
WriteOutput ==
    /\ pc = "write"
    /\ out_file' = [out_file EXCEPT ![Name] = [exists |-> TRUE, text |-> text, mtime |-> clock]]
    /\ Advance
    /\ UNCHANGED << in_dir, content, pdf_mtime, clock, runs, scanVars, loadVars >>

\* what happens to a source between two runs: nothing, or it is modified
\* within the time stamp of the last run, or after it
Stamps == { "keep", "same", "later" }

Stamp(old, how, now) ==
    CASE how = "keep" -> old
      [] how = "same" -> now
      [] how = "later" -> now + 1

\* the bound on the number of runs
MaxRuns == 2

\* the script is started again
Rerun ==
    /\ main_pc \in {"done", "aborted"}
    /\ runs < MaxRuns
    /\ runs' = runs + 1
    /\ clock' = clock + 1
    /\ \E how \in [in_dir -> Stamps] :
          pdf_mtime' = [ n \in DOMAIN pdf_mtime |->
                           IF n \in in_dir THEN Stamp(pdf_mtime[n], how[n], clock)
                           ELSE pdf_mtime[n] ]
    /\ main_pc' = "start"
    /\ pdfs' = << >>
    /\ di' = 0
    /\ UNCHANGED << in_dir, content, out_file, procVars, scanVars, loadVars >>

\* ------------------------------------------------------------------------
\* Inputs of stage 1
\* ------------------------------------------------------------------------
\* "1EBEA®"
O_Glitch == << "1", "E", "B", "E", "A", "®" >>
\* "ok"
O_Plain == << "o", "k" >>

Page(pad, chars, words, words_ok, vec, ocr, fb) ==
    [ pad |-> pad, chars |-> chars, words |-> words, words_ok |-> words_ok,
      rects |-> vec[1], lines |-> vec[2], curves |-> vec[3], images |-> vec[4],
      ocr |-> ocr, fb |-> fb ]

\* a page of plain digital text
PgDigital == Page(2, 800, 120, TRUE, << 0, 0, 0, 0 >>, O_Plain, O_Plain)
\* a scanned page: no digital text, the OCR reads a brand glitch
PgBlank == Page(3, 0, 0, TRUE, << 0, 0, 0, 1 >>, O_Glitch, O_Glitch)
\* a drawing with a few labels whose words cannot be extracted; its one-page
\* OCR raises, the OCR of its image in the fallback reads nothing
PgSparse == Page(0, 25, 120, FALSE, << 10, 15, 4, 1 >>, Raise, << >>)
\* a scanned page no OCR call can read
PgBroken == Page(0, 0, 0, TRUE, << 0, 0, 0, 1 >>, Raise, Raise)

PageMenu == { PgDigital, PgBlank, PgSparse, PgBroken }

\* the largest number of pages of a PDF
MaxPages == 2

Doc(pages, open_ok, render_ok) == [pages |-> pages, open_ok |-> open_ok, render_ok |-> render_ok]

PageSeqs == UNION { [1..n -> PageMenu] : n \in 1..MaxPages }

\* a PDF opens and renders, or opens not but renders, or does neither
DocMenu ==
    { Doc(ps, f[1], f[2]) : ps \in PageSeqs,
                            f \in { << TRUE, TRUE >>, << FALSE, TRUE >>, << FALSE, FALSE >> } }

\* what the second PDF of a batch holds
TailMenu ==
    { Doc(<< PgDigital >>, TRUE, TRUE), Doc(<< PgBlank >>, TRUE, TRUE),
      Doc(<< PgBroken >>, TRUE, TRUE) }

\* data/input holds no PDF, one PDF, or two
Batches ==
    { [dir |-> { }, content |-> [ n \in {"a.pdf", "b.pdf"} |-> Doc(<< PgDigital >>, TRUE, TRUE) ]] }
    \cup { [dir |-> {"a.pdf"},
            content |-> [ n \in {"a.pdf", "b.pdf"} |->
                            IF n = "a.pdf" THEN d ELSE Doc(<< PgDigital >>, TRUE, TRUE) ]] :
           d \in DocMenu }
    \cup { [dir |-> {"a.pdf", "b.pdf"},
            content |-> [ n \in {"a.pdf", "b.pdf"} |-> IF n = "a.pdf" THEN d ELSE e ]] :
           d \in DocMenu, e \in TailMenu }

\* every combination of the boundary values of the page classifier
VectorSplits ==
    { << 29, 0, 0, 0 >>, << 30, 0, 0, 0 >>, << 0, 30, 0, 0 >>, << 0, 0, 30, 0 >>,
      << 0, 0, 0, 30 >>, << 10, 10, 5, 5 >>, << 10, 10, 5, 4 >> }

PageCombos ==
    { Page(pad, chars, words, TRUE, vec, O_Plain, O_Plain) :
        pad \in {0, 1}, chars \in {0, 19, 20, 799, 800}, words \in {0, 79, 80},
        vec \in VectorSplits }

\* ------------------------------------------------------------------------
\* Specifications
\* ------------------------------------------------------------------------
ScanIdle ==
    /\ lines = << >>
    /\ idx = 0
    /\ current_page = NoneInt
    /\ current_lv = NoneText
    /\ rows = << >>
    /\ scan_pc = "idle"

LoadIdle ==
    /\ cpu_count = NoneInt
    /\ env_value = NoneText
    /\ MAX_WORKERS = DefaultWorkers(NoneInt)
    /\ load_pc = "loaded"

FilesIdle ==
    /\ in_dir = { }
    /\ content = [ n \in {"a.pdf", "b.pdf"} |-> Doc(<< PgDigital >>, TRUE, TRUE) ]
    /\ pdf_mtime = [ n \in {"a.pdf", "b.pdf"} |-> 0 ]
    /\ out_file = [ n \in {"a.pdf", "b.pdf"} |-> NoFile ]
    /\ clock = 1
    /\ runs = 1

ProcIdle ==
    /\ pdfs = << >>
    /\ di = 0
    /\ pc = "idle"
    /\ page_idx = 0
    /\ pieces = << >>
    /\ pages_for_ocr = << >>
    /\ futs = << >>
    /\ results = << >>
    /\ text = << >>

\* stage 2: parse_txt_file on one text file
InitParse ==
    /\ lines \in Docs
    /\ idx = 1
    /\ current_page = NoneInt
    /\ current_lv = NoneText
    /\ rows = << >>
    /\ scan_pc = "scan"
    /\ LoadIdle
    /\ FilesIdle
    /\ main_pc = "idle"
    /\ ProcIdle

NextParse ==
    \/ ScanLine
    \/ ScanReturn

SpecParse == InitParse /\ [][NextParse]_vars

\* stage 1: the script is run on a batch, with one or two OCR workers
Init ==
    /\ ScanIdle
    /\ cpu_count \in { 1, NoneInt }
    /\ env_value = NoneText
    /\ MAX_WORKERS = DefaultWorkers(cpu_count)
    /\ load_pc = "loaded"
    /\ \E b \in Batches : in_dir = b.dir /\ content = b.content
    /\ pdf_mtime = [ n \in {"a.pdf", "b.pdf"} |-> 0 ]
    /\ out_file = [ n \in {"a.pdf", "b.pdf"} |-> NoFile ]
    /\ clock = 1
    /\ runs = 1
    /\ main_pc = "start"
    /\ ProcIdle

Next ==
    \/ MainStart
    \/ MainNoPdfs
    \/ ProcessSkip
    \/ ProcessBegin
    \/ OpenPdf
    \/ OpenRaises
    \/ ScanPage
    \/ SubmitOcr
    \/ NoOcr
    \/ WorkerStart
    \/ WorkerFinish
    \/ CollectResult
    \/ CollectRaises
    \/ OcrDone
    \/ JoinPieces
    \/ Unwound
    \/ FallbackRender
    \/ FallbackRenderRaises
    \/ FallbackCollectResult
    \/ FallbackCollectRaises
    \/ FallbackJoin
    \/ FallbackUnwound
    \/ WriteOutput
    \/ Rerun

Spec == Init /\ [][Next]_vars

\* stage 1: extract_text_mixed on a one-page PDF, for every combination of
\* the boundary values of the page classifier
InitRoute ==
    /\ ScanIdle
    /\ LoadIdle
    /\ in_dir = {"a.pdf"}
    /\ \E p \in PageCombos :
          content = [ n \in {"a.pdf", "b.pdf"} |-> Doc(<< p >>, TRUE, TRUE) ]
    /\ pdf_mtime = [ n \in {"a.pdf", "b.pdf"} |-> 0 ]
    /\ out_file = [ n \in {"a.pdf", "b.pdf"} |-> NoFile ]
    /\ clock = 1
    /\ runs = 1
    /\ main_pc = "start"
    /\ ProcIdle

NextRoute ==
    \/ MainStart
    \/ ProcessBegin
    \/ OpenPdf
    \/ ScanPage
    \/ SubmitOcr
    \/ NoOcr
    \/ WorkerStart
    \/ WorkerFinish
    \/ CollectResult
    \/ OcrDone
    \/ JoinPieces
    \/ WriteOutput

SpecRoute == InitRoute /\ [][NextRoute]_vars

\* the characters of a value of OCR_MAX_WORKERS
EnvChars == { "0", "1", "9", "a", "-" }

\* the longest value of OCR_MAX_WORKERS, the largest os.cpu_count()
MaxEnvLen == 2
MaxCpu == 9

EnvValues == { NoneText } \cup UNION { [1..n -> EnvChars] : n \in 0..MaxEnvLen }

\* stage 1: the module is loaded
InitWorkers ==
    /\ ScanIdle
    /\ cpu_count \in { NoneInt } \cup 1..MaxCpu
    /\ env_value \in EnvValues
    /\ MAX_WORKERS = 0
    /\ load_pc = "default"
    /\ FilesIdle
    /\ main_pc = "start"
    /\ ProcIdle

NextWorkers ==
    \/ LoadDefault
    \/ LoadOverride
    \/ LoadKeep

SpecWorkers == InitWorkers /\ [][NextWorkers]_vars

\* ========================================================================
\* Properties of stage 1
\* ========================================================================
\* the page-ordered blob of a PDF whose pages of the set ocr went to OCR
OrderedBlob(d, ocr) ==
    [ n \in DOMAIN d.pages |->
        Section(n, IF n \in ocr
                   THEN OcrText(normalize_known_ocr_brand_glitches(d.pages[n].ocr))
                   ELSE StripDigital(d.pages[n])) ]

\* the pages in pages_for_ocr, and the futures of page n
OcrPages == { pages_for_ocr[k] : k \in DOMAIN pages_for_ocr }
FuturesOf(n) == { k \in DOMAIN futs : futs[k].page = n }

\* a slot is written at most once: it holds the digital text of a page that
\* has no future, or the result of the one future of its page once
\* as_completed has yielded that future, and None otherwise
WrittenOnce(n) ==
    IF n \in OcrPages
    THEN /\ Cardinality(FuturesOf(n)) = 1
         /\ \A k \in FuturesOf(n) :
               pieces[n] = IF futs[k].seen /\ futs[k].st = "done" THEN OcrSection(futs[k])
                           ELSE NoSection
    ELSE /\ FuturesOf(n) = { }
         /\ pieces[n] = Section(n, StripDigital(Cur.pages[n]))

\* C2: when every OCR task of extract_text_mixed succeeds, the blob it returns
\* holds one section per page, with the markers 1..N in increasing order, and
\* it is the same blob for every order in which the tasks complete; while the
\* tasks run, each slot is written once, by the future of its page.
C2_BlobIsPageOrdered ==
    /\ (pc = "ocr") =>
          \A n \in DOMAIN pieces : WrittenOnce(n)
    /\ (pc = "write" /\ results = << >>) =>
          /\ Len(text) = Len(Cur.pages)
          /\ \A n \in DOMAIN text : text[n].page = n
          /\ text = OrderedBlob(Cur, OcrPages)

\* C2 witness: the OCR result of page 2 is in its slot before the one of
\* page 1, and both calls returned
C2_Witness ==
    /\ pc = "ocr"
    /\ Len(futs) = 2
    /\ futs[1].st = "done" /\ ~futs[1].seen
    /\ futs[2].st = "done" /\ futs[2].seen
    /\ pieces[2] # NoSection

\* the three-way page classifier
RefClass(len, words, vec) ==
    IF len < 20 THEN "NO_TEXT"
    ELSE IF len < 800 /\ words < 80 /\ vec >= 30 THEN "SPARSE_VECTOR"
    ELSE "DIGITAL_OK"

ClassOf(page) ==
    RefClass(page.chars, page.words, page.rects + page.lines + page.curves + page.images)

\* the one page of the PDF, once the page loop has routed it
Routed == pc = "scan" /\ page_idx = 2

\* C5: extract_text_mixed queues a page for OCR when the classifier says
\* NO_TEXT or SPARSE_VECTOR, and keeps its stripped digital text behind its
\* marker when the classifier says DIGITAL_OK; with a text of 20 characters
\* or more, one failing SPARSE_VECTOR condition gives DIGITAL_OK.
C5_RoutingIsThreeWay ==
    Routed =>
       /\ (ClassOf(Cur.pages[1]) \in {"NO_TEXT", "SPARSE_VECTOR"}) =>
             (pages_for_ocr = << 1 >> /\ pieces[1] = NoSection)
       /\ (ClassOf(Cur.pages[1]) = "DIGITAL_OK") =>
             (pages_for_ocr = << >> /\ pieces[1] = Section(1, StripDigital(Cur.pages[1])))
       /\ (/\ Cur.pages[1].chars >= 20
           /\ \/ Cur.pages[1].chars >= 800
              \/ Cur.pages[1].words >= 80
              \/ VectorCount(Cur.pages[1]) < 30) =>
             (pages_for_ocr = << >> /\ pieces[1] # NoSection)

\* C5 witness: a page at the limit of all three SPARSE_VECTOR conditions is
\* queued for OCR
C5_Witness ==
    /\ Routed
    /\ Cur.pages[1].chars = 799
    /\ Cur.pages[1].words = 79
    /\ VectorCount(Cur.pages[1]) = 30
    /\ pages_for_ocr = << 1 >>

\* C6: a PDF for which the per-page strategy and the fallback both fail does
\* not abort the run: main is never stopped by an exception with a later PDF
\* of the batch left unprocessed.
C6_DoubleFailureIsLocal == ~(main_pc = "aborted" /\ di < Len(pdfs))

\* the per-page strategy of the PDF in hand failed in an OCR task
OcrTaskRaised == \E k \in DOMAIN pages_for_ocr : Cur.pages[pages_for_ocr[k]].ocr = Raise

\* the blob of the fallback: one OCR section per page, in page order
FallbackBlob(d) ==
    [ n \in DOMAIN d.pages |->
        Section(n, OcrText(normalize_known_ocr_brand_glitches(d.pages[n].fb))) ]

\* C7: when an OCR task of the per-page strategy raises, the exception
\* reaches process_pdf only after every submitted task has run (none is
\* cancelled), and the text that is then written is the blob of the
\* fallback, one section per page in page order, with no slot of the
\* per-page strategy in it.
C7_FailedPageFallsBack ==
    /\ (pc = "fallback" /\ futs # << >>) => \A k \in DOMAIN futs : futs[k].st \in {"done", "failed"}
    /\ (pc \in {"fallback", "fb_ocr", "fb_unwind"}) => text = << >>
    /\ (pc = "write" /\ OcrTaskRaised) =>
          /\ text = FallbackBlob(Cur)
          /\ text = results
          /\ \A n \in DOMAIN text : text[n].page = n /\ text[n].text.src = "ocr"

\* C7 witness: the fallback's blob is about to be written while a slot of the
\* abandoned per-page strategy holds a digital text
C7_Witness ==
    /\ pc = "write"
    /\ OcrTaskRaised
    /\ \E n \in DOMAIN pieces : pieces[n] # NoSection /\ pieces[n] # text[n]

\* process_pdf is at its first line with an output that is not older than
\* the source
CheckingFresh ==
    /\ pc = "check"
    /\ out_file[Name].exists
    /\ out_file[Name].mtime >= pdf_mtime[Name]

\* process_pdf is at its first line, in a later run, with the output of an
\* earlier run and a source that was never modified
CheckingAgain ==
    /\ pc = "check"
    /\ runs > 1
    /\ out_file[Name].exists
    /\ pdf_mtime[Name] = 0

\* process_pdf returns at once: no file changes, nothing is extracted, and
\* main is at the next PDF
Skipped ==
    /\ out_file' = out_file
    /\ di' = di + 1
    /\ pc' \in {"check", "idle"}
    /\ futs' = << >> /\ pieces' = << >> /\ text' = << >>

IsPositiveInt(env) == env # NoneText /\ IsDigitStr(env) /\ ToInt(env) > 0

\* min(available parallelism, 8)
DefaultPool == MinNat(IF cpu_count = NoneInt THEN 2 ELSE cpu_count, 8)

NormLower(k) == LowerStr(clean_line_for_matching(Strip(lines[k])))

HasVendor(s) == Contains(s, VendorUml) \/ Contains(s, VendorOe)
HasCompetitor(s) == \E w \in COMPETITORS : Contains(s, w)

\* the lines the scan is done with, and the rows of line k
ScannedLines == 1..(idx - 1)
RowsOf(k) == { n \in DOMAIN rows : rows[n].line_no = k }

\* the code of scenario 1
S1_Lv == << "6", ".", "1", ".", "2", "3", "1", "0", "." >>
S1_Code ==
    << "K", "-", "M", "6", "-", "V", "1", "-", "R", "E", "I", "1", "2", "0", "-",
       "C", "V", "3", "5", "-", "X", "1", "2", "0", "-", "H", "2", "2", "0" >>

\* C1: the scan of the page marker of page 3 followed by the line of
\* scenario 1 returns one record: page 3, LV position 6.1.2310., family
\* Isokorb, product code K-M6-V1-REI120-CV35-X120-H220, quantity 10000,
\* unit St.
C1_Scenario1 ==
    (scan_pc = "done" /\ lines = << L_Page3, L_Scenario1 >>) =>
       /\ Len(rows) = 1
       /\ rows[1].page = 3
       /\ rows[1].lv_position = S1_Lv
       /\ rows[1].family = "Isokorb"
       /\ rows[1].product_code = S1_Code
       /\ rows[1].quantity = 10000
       /\ rows[1].unit = << "S", "t" >>

\* C3: a line whose normalized lower-cased form holds the vendor name and
\* the name of a competitor yields no record.
C3_PrecisionGate ==
    \A n \in DOMAIN rows :
       ~(HasVendor(NormLower(rows[n].line_no)) /\ HasCompetitor(NormLower(rows[n].line_no)))

\* C3 witness: the scan is past a line with the vendor, a competitor, a
\* family, a product code and a quantity, and the line after it has a
\* quantity too
C3_Witness ==
    /\ idx > 2
    /\ lines[1] = L_Competitor
    /\ lines[2] = L_Qty
    /\ RowsOf(1) = { }

\* line k is no page marker, names the vendor and no competitor, and holds a
\* family pattern
FamilyLine(k) ==
    /\ ~IsPageMarker(Strip(lines[k]))
    /\ HasVendor(NormLower(k))
    /\ ~HasCompetitor(NormLower(k))
    /\ \E f \in DOMAIN FAMILY_PATTERNS :
          Matches(FAMILY_PATTERNS[f].patt, clean_line_for_matching(Strip(lines[k])))

\* a quantity with a unit is on line k or on one of the three lines after it
QtyNear(k) ==
    \E j \in k..(k + 3) :
       j <= Len(lines) /\ Matches(QTY_UNIT_PATTERN, clean_line_for_matching(lines[j]))

\* the product code of the family of line k is on line k or the line after it
CodeNear(k) ==
    ProductCode(FamilyIn(clean_line_for_matching(Strip(lines[k]))),
                Segment(lines, k, clean_line_for_matching(Strip(lines[k])))) # << >>

\* C4: a line that names the vendor and no competitor and holds a family
\* pattern yields no record when there is neither a quantity with a unit on
\* it or in the look-ahead window nor a product code, and one record when
\* there is either; every record has a family and a quantity or a product
\* code.
C4_RecallBoundary ==
    /\ \A k \in ScannedLines :
          FamilyLine(k) =>
             Cardinality(RowsOf(k)) = IF QtyNear(k) \/ CodeNear(k) THEN 1 ELSE 0
    /\ \A n \in DOMAIN rows :
          /\ rows[n].family \in { FAMILY_PATTERNS[f].name : f \in DOMAIN FAMILY_PATTERNS }
          /\ rows[n].quantity # NoneInt \/ rows[n].product_code # << >>

\* C4 witness: a family line without a product code has its record from a
\* quantity three lines below it, and the same line as last line of the
\* file has none
C4_Witness ==
    /\ scan_pc = "done"
    /\ Len(lines) = 4
    /\ lines[1] = L_Isokorb
    /\ lines[4] = L_Qty
    /\ Cardinality(RowsOf(1)) = 1
    /\ rows[1].product_code = << >>

MaxOf(S) == CHOOSE x \in S : \A y \in S : y <= x

MarkerLines(k) == { j \in 1..(k - 1) : IsPageMarker(Strip(lines[j])) }

\* the ordinal of the last page marker before line k
PageBefore(k) ==
    IF MarkerLines(k) = { } THEN NoneInt
    ELSE ToInt(Group0(Strip(lines[MaxOf(MarkerLines(k))]),
                      Search(Digits1, Strip(lines[MaxOf(MarkerLines(k))]), 1)))

\* the match of the LV pattern in the cleaned line c, None when it has none
LvIn(c, m) == IF m = << >> THEN NoneText ELSE Group0(c, m)
LvMatch(c) == IF c = << >> THEN NoneText ELSE LvIn(c, Search(LV_PATTERN, c, 1))

LvLines(k) ==
    { j \in 1..k : /\ ~IsPageMarker(Strip(lines[j]))
                   /\ LvMatch(clean_line_for_matching(Strip(lines[j]))) # NoneText }

\* the LV position on the last line up to k that is no page marker and
\* holds one
LvUpTo(k) ==
    IF LvLines(k) = { } THEN NoneText
    ELSE LvMatch(clean_line_for_matching(Strip(lines[MaxOf(LvLines(k))])))

\* C10: the page of a record is the ordinal of the last page marker before
\* its source line, its LV position is the match of the LV pattern on the
\* last line that is no page marker, up to its source line, that has one
\* (None when there is none); a page marker yields no record and leaves the
\* carried LV position as it is.
C10_CarriedState ==
    /\ \A n \in DOMAIN rows :
          /\ rows[n].page = PageBefore(rows[n].line_no)
          /\ rows[n].lv_position = LvUpTo(rows[n].line_no)
          /\ ~IsPageMarker(Strip(lines[rows[n].line_no]))
    /\ (scan_pc = "scan") => current_lv = LvUpTo(idx - 1)

\* C10 witness: a record whose LV position comes from two lines above, over
\* a page marker that itself holds a dotted number, and whose page is the
\* one of that marker
C10_Witness ==
    /\ Len(rows) = 1
    /\ Len(lines) = 3
    /\ lines[1] = L_LvStacon
    /\ lines[2] = L_PageLv
    /\ rows[1].line_no = 3
    /\ rows[1].page = 2
    /\ rows[1].lv_position = << "7", " ", ".", " ", "2", "." >>

====
